---- MODULE Spec2Model ----
(***************************************************************************)
(* Search orchestration of the FHIR terminology browser (src/src/main.js): *)
(* the field subscription with its minimum-length gate and token, the      *)
(* generic search handler with its stale-result guard, page navigation of  *)
(* the Concept and ECL surfaces, and the merged (fanned-out) resource      *)
(* query with its deduplication.                                           *)
(*                                                                         *)
(* Specifications:                                                         *)
(*   Spec       the four search surfaces, their requests and responses;    *)
(*              a Code System / Value Set search is one promise here, the  *)
(*              promise mergedFHIRResourceQueries returns;                 *)
(*   SpecGate   the field subscription alone, on every event and value;    *)
(*   SpecMerge  one call of mergedFHIRResourceQueries, its N gateway       *)
(*              promises settling in any order;                            *)
(*   SpecSearch the call of mergedFHIRResourceQueries a Code System or     *)
(*              Value Set search makes, with its three queries;            *)
(*   SpecAnswer one search of any surface, from the lists its queries      *)
(*              return (or lack) to what is drawn;                         *)
(*   SpecRows   the ECL filter rows (add, remove, edit, Parents/Children)  *)
(*              with the ECL searches they trigger;                        *)
(*   SpecRender updateSearchString on arbitrary filter rows;               *)
(*   SpecUrl    ECL searches with any URL in the Value Set field;          *)
(*   SpecError  expansions whose gateway call fails in every way;          *)
(*   SpecPaging the Concept and ECL surfaces alone, with larger totals;    *)
(*   SpecPage   the success handler of handleSearchField on a response     *)
(*              with any offset or with none;                              *)
(*   SpecSettle SpecMerge when every sent gateway call completes and the   *)
(*              promise reactions run (weak fairness);                     *)
(*   SpecLive   Spec when every gateway call completes (weak fairness);    *)
(*   SpecControls the page controls getPagination builds: numbered pages,  *)
(*              prev and next;                                             *)
(*   SpecRetype searches and page clicks while the text of the fields      *)
(*              changes, also to values that do not pass the gate.         *)
(*                                                                         *)
(* Environment assumptions of Spec: the millisecond clock read by          *)
(* `+ new Date()` never runs backwards (it may stand still between two     *)
(* events); the server answers an expansion with the offset it was asked   *)
(* for and with min(pageSize, total - offset) concepts.                    *)
(***************************************************************************)
EXTENDS Integers, Sequences, FiniteSets, TLC

\* ---------------------------------------------------------------- bounds
\* Largest value of the millisecond clock (tokens are clock readings).
MaxClock == 2
\* Number of searches and page requests issued in one behaviour.
MaxRequests == 3
\* mergedFHIRResourceQueries: length of the entry list one query returns.
MaxEntries == 2
\* Largest total the server reports for an expansion.
MaxTotal == 150
\* Largest number of ECL filter rows.
MaxRows == 2
\* The largest total the server reports in the behaviours of SpecPaging and
\* SpecPage: three pages of PageSize, the last one half full.
MaxPagedTotal == 250
\* SpecPage: the server answers with an offset of 0..MaxHalfPages half pages,
\* or one more.
MaxHalfPages == 4
\* SpecUrl: the largest number of parts of a Value Set URL.
MaxUrlLen == 3

\* ------------------------------------------------------- program constants
\* context.conceptSearch.count, context.eclSearch.count
PageSize == 100
\* subscribe: default minLength, and the minLength handleECLFilter passes
DefaultMinLength == 2
EclMinLength == 1
\* handleCodeSystem, handleValueSet: the number of queries merged per search
QueriesPerSearch == 3

VARIABLES
    \* ---- search surfaces (Spec)
    clock,              \* the last reading of the clock, `+ new Date()`
    latestSearchToken,  \* context.latestSearchToken (0 is null)
    fieldVal,           \* value of the Value Set, Concept and ECL search field
    offset,             \* context.conceptSearch.offset, context.eclSearch.offset
    reqs,               \* every search / page request issued, by id
    nextId,             \* id of the next request
    display,            \* content of each surface's results container
    loading,            \* loading icon of each surface rotating (not paused)
    errorShown,         \* #error-container visible
    viewport,           \* where the page was last scrolled to
    lastDelivered,      \* history: the request answered last (0: none yet)
    \* ---- one call of mergedFHIRResourceQueries (SpecMerge)
    responses,          \* per query, the ids of the entries the server returns
    qstatus,            \* per query promise: pending, fulfilled, rejected
    queries,            \* the local array `queries`
    lastQuery,          \* the query processResults popped and waits for
    uniqueIds,          \* the local array `uniqueIds`
    uniqueResults,      \* the local array `uniqueResults`
    mstate,             \* the returned promise: idle, running, resolved, rejected
    merror,             \* the query whose error rejected the returned promise
    settled,            \* history: the queries in the order their calls ended
    \* ---- the ECL filter rows (SpecRows, SpecRender)
    rows,               \* the .ecl-filter-wrapper elements, in document order
    eclLog              \* what updateSearchString wrote to the console last

searchVars == <<clock, latestSearchToken, fieldVal, offset, reqs, nextId,
                display, loading, errorShown, viewport, lastDelivered>>
mergeVars == <<responses, qstatus, queries, lastQuery, uniqueIds,
               uniqueResults, mstate, merror, settled>>
rowVars == <<rows, eclLog>>
vars == <<clock, latestSearchToken, fieldVal, offset, reqs, nextId,
          display, loading, errorShown, viewport, lastDelivered,
          responses, qstatus, queries, lastQuery, uniqueIds,
          uniqueResults, mstate, merror, settled, rows, eclLog>>

\* ------------------------------------------------------------- surfaces
Surfaces == {"codeSystem", "valueSet", "concept", "ecl"}
Paginated == {"concept", "ecl"}

\* Field values are character sequences; the gate trims them.
Values == { <<" ">>, <<"a">>, <<" ", "a">>, <<"a", "b">> }
\* The search fields whose value the model keeps: the Concept and the ECL
\* field, and the Value Set field, which holds the URL the expansions use.
Fields == Paginated \cup {"valueSet"}

\* The suffix a Value Set URL needs in an ECL query, "?fhir_vs".
FhirVs == <<"?", "fhir_vs">>

\* index.html: the value attribute of #value-sets-search.
DefaultUrl == <<"http://snomed.info/sct/83821000000107/version/20200415">> \o FhirVs

\* index.html: the Concept and the ECL search field start empty.
InitialValue(s) == IF s = "valueSet" THEN DefaultUrl ELSE <<>>

\* change, keypress with keyCode 13, keypress with another keyCode
EventTypes == {"change", "enter", "key"}

\* Values typed in the behaviours of Spec: they pass the gate of every surface.
SearchValues == { <<"a", "b">> }

\* Totals the server may report for a query (0: nothing matches).
Totals == {0, MaxTotal}
\* The totals of the behaviours of Spec: every search finds something.
SearchTotals == {MaxTotal}

RECURSIVE TrimLeft(_)
TrimLeft(v) == IF v # <<>> /\ Head(v) = " " THEN TrimLeft(Tail(v)) ELSE v

RECURSIVE TrimRight(_)
TrimRight(v) ==
    IF v # <<>> /\ v[Len(v)] = " " THEN TrimRight(SubSeq(v, 1, Len(v) - 1)) ELSE v

\* String.prototype.trim
Trim(v) == TrimRight(TrimLeft(v))

\* subscribe's third argument per surface
MinLength(s) == IF s = "ecl" THEN EclMinLength ELSE DefaultMinLength

\* Variant: the gate on the untrimmed value.
PassesGateUntrimmed(s, v) == ~(Len(v) < MinLength(s))

\* subscribe: `if (evt.target.value.trim().length < minLength) { return; }`
PassesGate(s, v) == ~(Len(Trim(v)) < MinLength(s))

\* subscribe: `if (evt.type === "keypress" && evt.keyCode !== 13) { return; }`
IsEnterOrChange(ev) == ev # "key"

\* Variant: every response is taken for current.
IsCurrentAlways(tok) == TRUE

\* handleSearchField: `if (context.latestSearchToken !== searchToken) { return; }`
IsCurrent(tok) == latestSearchToken = tok

CeilDiv(a, b) == (a + b - 1) \div b

Min(a, b) == IF a < b THEN a ELSE b

\* The value a promise that was not rejected is rejected with.
NoError == [message |-> ""]

NoRequest ==
    [surface |-> "none", token |-> 0, value |-> <<>>, offset |-> 0,
     kind |-> "none", status |-> "unused", calls |-> 0, url |-> <<>>,
     error |-> NoError]

\* Variant: every search is one gateway call.
GatewayCallsOne(s) == 1

\* The calls of query (one $.ajax each) apiQueryBuilder makes: the Concept and
\* ECL builders call query once, the Code System and Value Set builders pass
\* a list of QueriesPerSearch pairs to mergedFHIRResourceQueries, which
\* calls queryFHIRResource on each.
GatewayCalls(s) == IF s \in Paginated THEN 1 ELSE QueriesPerSearch

\* What a results container shows: the search request drawn, the active page
\* and the number of pages of its pagination controls, and the page
\* information "Results <first> to ... of <total>" (0: not shown).
NoDisplay ==
    [kind |-> "none", req |-> 0, current |-> 0, pages |-> 0, tok |-> 0,
     first |-> 0, total |-> 0]

\* Variant: the suffix is appended to every URL.
EndsWithNever(str, suffix) == FALSE

\* String.prototype.endsWith
EndsWith(str, suffix) ==
    /\ Len(str) >= Len(suffix)
    /\ SubSeq(str, Len(str) - Len(suffix) + 1, Len(str)) = suffix

\* handleECLFilter.search (apiQueryBuilder): the url parameter built from the
\* value of #value-sets-search and the value of the ECL search field.
EclUrl(url, value) ==
    (IF ~EndsWith(url, FhirVs) THEN url \o FhirVs ELSE url) \o <<"=ecl/">> \o value

\* The url parameter of the expansion a surface asks for (the resource
\* queries of the other surfaces have none).
QueryUrl(s, val) ==
    IF s = "ecl" THEN EclUrl(fieldVal["valueSet"], val)
    ELSE IF s = "concept" THEN fieldVal["valueSet"]
    ELSE <<>>

\* handleSearchField up to the call of apiQueryBuilder: the field is read,
\* the loading icon started and the query sent with the surface's offset.
NewRequest(s, tok, kind, val, off) ==
    [surface |-> s, token |-> tok, value |-> val, offset |-> off,
     kind |-> kind, status |-> "inflight", calls |-> GatewayCalls(s),
     url |-> QueryUrl(s, val), error |-> NoError]

SearchInit ==
    /\ clock = 1
    /\ latestSearchToken = 0
    /\ fieldVal = [s \in Fields |-> InitialValue(s)]
    /\ offset = [s \in Paginated |-> 0]
    /\ reqs = [i \in 1..MaxRequests |-> NoRequest]
    /\ nextId = 1
    /\ display = [s \in Surfaces |-> NoDisplay]
    /\ loading = [s \in Surfaces |-> FALSE]
    /\ errorShown = FALSE
    /\ viewport = "start"
    /\ lastDelivered = 0

MergeIdle ==
    /\ responses = <<>>
    /\ qstatus = <<>>
    /\ queries = <<>>
    /\ lastQuery = 0
    /\ uniqueIds = <<>>
    /\ uniqueResults = <<>>
    /\ mstate = "idle"
    /\ merror = 0
    /\ settled = <<>>

\* ------------------------------------------------------ actions of Spec
\* Variant: the callback leaves the offset where the last page request put it.
OffsetKept(s) == offset

\* The callbacks handleConcept and handleECLFilter pass to subscribe:
\* `context.conceptSearch.offset = 0`, `context.eclSearch.offset = 0`.
OffsetOnSearch(s) == [offset EXCEPT ![s] = 0]

\* The handler subscribe binds to "change keypress" of the field of surface
\* s, the field holding v when the event fires, followed by the callback
\* the surface passed to subscribe and by handleSearchField up to the query.
\* `+ new Date()` reads the clock dt milliseconds after its last reading
\* (dt is 0 or more; 1 stands for any positive number).
Fire(s, ev, v, dt) ==
    /\ IF IsEnterOrChange(ev) /\ PassesGate(s, v)
       THEN /\ nextId <= MaxRequests
            /\ clock + dt <= MaxClock
            /\ clock' = clock + dt
            /\ latestSearchToken' = clock'
            /\ offset' = IF s \in Paginated THEN OffsetOnSearch(s) ELSE offset
            /\ reqs' = [reqs EXCEPT ![nextId] =
                          NewRequest(s, clock', "search", v,
                                     IF s \in Paginated THEN offset'[s] ELSE 0)]
            /\ nextId' = nextId + 1
            /\ loading' = [loading EXCEPT ![s] = TRUE]
       ELSE UNCHANGED <<clock, latestSearchToken, offset, reqs, nextId, loading>>
    /\ fieldVal' = IF s \in Fields THEN [fieldVal EXCEPT ![s] = v] ELSE fieldVal
    /\ UNCHANGED <<display, errorShown, lastDelivered>>

\* A change or keypress event of the user on the search field of surface s.
Trigger(s, ev, v, dt) ==
    /\ Fire(s, ev, v, dt)
    /\ UNCHANGED viewport
    /\ UNCHANGED mergeVars
    /\ UNCHANGED rowVars

\* Variant: a page request carries the latest token.
PageTokenLatest(s) == latestSearchToken

\* onPageChange: `search(searchToken, field)`, searchToken being the
\* parameter of the search call that drew the controls.
PageToken(s) == display[s].tok

\* A click on page p of the pagination controls shown on surface s:
\* onPageChange(p) of the search that drew the controls.
PageClick(s, p) ==
    /\ s \in Paginated
    /\ display[s].kind = "results"
    /\ p \in 1..display[s].pages
    /\ nextId <= MaxRequests
    /\ offset' = [offset EXCEPT ![s] = PageSize * (p - 1)]
    /\ reqs' = [reqs EXCEPT ![nextId] =
                  NewRequest(s, PageToken(s), "page", fieldVal[s],
                             PageSize * (p - 1))]
    /\ nextId' = nextId + 1
    /\ loading' = [loading EXCEPT ![s] = TRUE]
    /\ UNCHANGED <<clock, latestSearchToken, fieldVal, display, errorShown, viewport,
                   lastDelivered>>
    /\ UNCHANGED mergeVars
    /\ UNCHANGED rowVars

\* getPagination: the children of ul.pagination once `container.prepend(prev)`
\* and `container.append(next)` have run: prev, the pages 1..total, next.
Controls(total) ==
    <<[kind |-> "prev", page |-> 0]>>
    \o [i \in 1..total |-> [kind |-> "page", page |-> i]]
    \o <<[kind |-> "next", page |-> 0]>>

\* Variant: the position of a page among the children is its number.
PrevIndexByNumber(current) == current - 1

\* The handler of prev: `li:nth-child(${current})`
PrevIndex(current) == current

\* The handler of next: `li:nth-child(${current + 2})`
NextIndex(current) == current + 2

\* `.find("li:nth-child(n)").click()` on the controls of surface s: the click
\* handler of the n-th child runs, if there is one; that of a page i calls
\* pageCallback(i).
NthChildClick(s, n) ==
    /\ n \in 1..Len(Controls(display[s].pages))
    /\ Controls(display[s].pages)[n].kind = "page"
    /\ PageClick(s, Controls(display[s].pages)[n].page)

\* A click on prev: it is disabled when `current === 1`.
PrevClick(s) ==
    /\ s \in Paginated
    /\ display[s].kind = "results"
    /\ display[s].current # 1
    /\ NthChildClick(s, PrevIndex(display[s].current))

\* A click on next: it is disabled when `current === total`.
NextClick(s) ==
    /\ s \in Paginated
    /\ display[s].kind = "results"
    /\ display[s].current # display[s].pages
    /\ NthChildClick(s, NextIndex(display[s].current))

\* Variant: the active page is the one that holds the first result.
CurrentPageFloor(off) == (off \div PageSize) + 1

\* handleSearchField: `Math.ceil(response.offset / response.pageSize) + 1`
CurrentPage(off) == CeilDiv(off, PageSize) + 1

\* Variant: only full pages are counted.
PageCountFloor(total) == total \div PageSize

\* handleSearchField: `Math.ceil(response.total / response.pageSize)`
PageCount(total) == CeilDiv(total, PageSize)

\* The number of concepts the server returns from offset off of `total`.
ResultsLength(off, total) == IF total > off THEN Min(PageSize, total - off) ELSE 0

\* The value of an attribute the response does not have.
Undefined == -1

\* Variant: the merged result carries the offset as an expansion does.
ResponseOffsetAlways(s, off) == off

\* The offset attribute of the object apiQueryBuilder resolves with: an
\* expansion passes on response.expansion.offset (off), and
\* mergedFHIRResourceQueries resolves with `{ results: uniqueResults }`.
ResponseOffset(s, off) == IF s \in Paginated THEN off ELSE Undefined

\* handleSearchField: `if (response.offset !== undefined)`
HasOffset(off) == off # Undefined

\* What the success handler draws for request i answered with offset off
\* (Undefined: the expansion has none) and with `total` matches.
\* getPagination(current, total) builds pages 1..total and then evaluates
\* pages[current - 1].addClass: with current > total this is a TypeError
\* thrown inside the handler, after the container was emptied: the
\* container stays without results and without controls.
DrawnAt(i, off, total) ==
    LET r == reqs[i]
        ro == ResponseOffset(r.surface, off)
        n == IF HasOffset(ro) THEN ResultsLength(ro, total)
             ELSE IF r.surface \in Paginated THEN Min(PageSize, total) ELSE total
    IN  IF n > 0
        THEN IF HasOffset(ro)
             THEN IF CurrentPage(ro) <= PageCount(total)
                  THEN [kind |-> "results", req |-> i,
                        current |-> CurrentPage(ro),
                        pages |-> PageCount(total), tok |-> r.token,
                        first |-> ro + 1, total |-> total]
                  ELSE [kind |-> "broken", req |-> i, current |-> 0, pages |-> 0,
                        tok |-> r.token, first |-> 0, total |-> 0]
             ELSE [kind |-> "results", req |-> i, current |-> 0, pages |-> 0,
                   tok |-> r.token, first |-> 0, total |-> 0]
        ELSE [kind |-> "empty", req |-> i, current |-> 0, pages |-> 0, tok |-> r.token,
              first |-> 0, total |-> 0]

\* The same for a server that answers with the offset it was asked for.
Drawn(i, total) == DrawnAt(i, reqs[i].offset, total)

\* The promise of request i is fulfilled: the query's own then-handler (the
\* ECL one scrolls to the results title), then handleSearchField's.
DeliverOk(i, total) ==
    /\ reqs[i].status = "inflight"
    /\ lastDelivered' = i
    /\ viewport' = IF reqs[i].surface = "ecl" THEN "ecl-filters-title" ELSE viewport
    /\ IF IsCurrent(reqs[i].token)
       THEN /\ reqs' = [reqs EXCEPT ![i].status = "applied"]
            /\ errorShown' = FALSE
            /\ display' = [display EXCEPT ![reqs[i].surface] = Drawn(i, total)]
            /\ loading' = [loading EXCEPT ![reqs[i].surface] = FALSE]
       ELSE /\ reqs' = [reqs EXCEPT ![i].status = "discarded"]
            /\ UNCHANGED <<errorShown, display, loading>>
    /\ UNCHANGED <<clock, latestSearchToken, fieldVal, offset, nextId>>
    /\ UNCHANGED mergeVars
    /\ UNCHANGED rowVars

\* The same promise fulfilled by a server that answers with an offset of its
\* own choice. When getPagination throws, the handler ends before it pauses
\* the loading icon.
DeliverPage(i, off, total) ==
    /\ reqs[i].status = "inflight"
    /\ lastDelivered' = i
    /\ viewport' = IF reqs[i].surface = "ecl" THEN "ecl-filters-title" ELSE viewport
    /\ IF IsCurrent(reqs[i].token)
       THEN /\ reqs' = [reqs EXCEPT ![i].status = "applied"]
            /\ errorShown' = FALSE
            /\ display' = [display EXCEPT ![reqs[i].surface] = DrawnAt(i, off, total)]
            /\ loading' = [loading EXCEPT ![reqs[i].surface] =
                              DrawnAt(i, off, total).kind = "broken"]
       ELSE /\ reqs' = [reqs EXCEPT ![i].status = "discarded"]
            /\ UNCHANGED <<errorShown, display, loading>>
    /\ UNCHANGED <<clock, latestSearchToken, fieldVal, offset, nextId>>
    /\ UNCHANGED mergeVars
    /\ UNCHANGED rowVars

\* Variant: the error handler returns, as the success handler does, when the
\* token of its search is not the latest.
ErrorReportedIfCurrent(i) == IsCurrent(reqs[i].token)

\* handleSearchField's error handler has no guard: it runs to its end for
\* every rejection.
ErrorReported(i) == TRUE

\* The promise of request i is rejected: handleSearchField's error handler.
\* It pauses the loading icon, writes "Error. Please check the console or
\* the error box at the top of the page." over the results container and
\* shows the error box.
DeliverErr(i) ==
    /\ reqs[i].status = "inflight"
    /\ lastDelivered' = i
    /\ reqs' = [reqs EXCEPT ![i].status = "failed"]
    /\ IF ErrorReported(i)
       THEN /\ loading' = [loading EXCEPT ![reqs[i].surface] = FALSE]
            /\ display' = [display EXCEPT ![reqs[i].surface] =
                             [kind |-> "error", req |-> i, current |-> 0, pages |-> 0,
                              tok |-> reqs[i].token, first |-> 0, total |-> 0]]
            /\ errorShown' = TRUE
       ELSE UNCHANGED <<loading, display, errorShown>>
    /\ UNCHANGED <<clock, latestSearchToken, fieldVal, offset, nextId, viewport>>
    /\ UNCHANGED mergeVars
    /\ UNCHANGED rowVars

\* What $.ajax hands to the error callback of query, as far as the callback
\* reads it: the HTTP status (0: no response), the body, and whether jQuery
\* parsed the body as JSON into responseJSON. With dataType "json" a
\* response of status 200 whose body does not parse is an error as well.
FailedCalls ==
    { [status |-> 0, responseText |-> "", responseJSON |-> FALSE],
      [status |-> 404, responseText |-> "", responseJSON |-> FALSE],
      [status |-> 500, responseText |-> "", responseJSON |-> FALSE],
      [status |-> 404, responseText |-> "{OperationOutcome}", responseJSON |-> TRUE],
      [status |-> 500, responseText |-> "{OperationOutcome}", responseJSON |-> TRUE],
      [status |-> 500, responseText |-> "<html>", responseJSON |-> FALSE],
      [status |-> 200, responseText |-> "<html>", responseJSON |-> FALSE] }

\* query, error callback: `if (jqXHR.responseJSON) reject(new Error(
\* jqXHR.responseText)); else reject(new Error(jqXHR.status));`
GatewayError(jqXHR) ==
    IF jqXHR.responseJSON
    THEN [message |-> jqXHR.responseText]
    ELSE [message |-> ToString(jqXHR.status)]

\* The gateway call of request i ends in the error callback with jqXHR: the
\* promise is rejected with the Error built there, and handleSearchField's
\* error handler runs.
DeliverFailure(i, jqXHR) ==
    /\ reqs[i].status = "inflight"
    /\ reqs[i].surface \in Paginated
    /\ lastDelivered' = i
    /\ reqs' = [reqs EXCEPT ![i].status = "failed", ![i].error = GatewayError(jqXHR)]
    /\ loading' = [loading EXCEPT ![reqs[i].surface] = FALSE]
    /\ display' = [display EXCEPT ![reqs[i].surface] =
                     [kind |-> "error", req |-> i, current |-> 0, pages |-> 0,
                      tok |-> reqs[i].token, first |-> 0, total |-> 0]]
    /\ errorShown' = TRUE
    /\ UNCHANGED <<clock, latestSearchToken, fieldVal, offset, nextId, viewport>>
    /\ UNCHANGED mergeVars
    /\ UNCHANGED rowVars

\* ------------------------------------- mergedFHIRResourceQueries (SpecMerge)
\* The resource ids the server knows.
Ids == {"sct", "icd10"}

RECURSIVE SeqsUpTo(_, _)
\* All sequences over S of length at most n.
SeqsUpTo(S, n) ==
    IF n = 0 THEN { <<>> }
    ELSE LET shorter == SeqsUpTo(S, n - 1)
         IN  shorter \cup { Append(q, x) : q \in shorter, x \in S }

\* The entry (or contains) attribute of a response that has none.
Absent == <<"undefined">>

\* Variant: the attribute is taken as it is.
OrEmptyNot(list) == list

\* queryFHIRResource: `response.entry || []`; the then-handlers of the
\* expansions: `response.expansion.contains || []`.
OrEmpty(list) == IF list = Absent THEN <<>> ELSE list

\* The entry lists one query may return: the resource ids of its entries.
EntryLists == SeqsUpTo(Ids, MaxEntries)

\* The j-th entry of the response to query i: an object of its own, with
\* resource.id = responses[i][j].
Entry(i, j) == [id |-> responses[i][j], q |-> i, pos |-> j]

\* The entries of the response to query i, in order.
Results(i) == [j \in 1..Len(OrEmpty(responses[i])) |-> Entry(i, j)]

Includes(seq, x) == \E k \in 1..Len(seq) : seq[k] = x

\* Variant: every item is pushed.
PushAlways(acc, item) ==
    [ids |-> Append(acc.ids, item.id), results |-> Append(acc.results, item)]

\* The body of response.results.forEach: push the item unless its
\* resource.id is in uniqueIds already.
PushUnique(acc, item) ==
    IF ~Includes(acc.ids, item.id)
    THEN [ids |-> Append(acc.ids, item.id), results |-> Append(acc.results, item)]
    ELSE acc

RECURSIVE ForEach(_, _)
\* response.results.forEach over the items, from the accumulator acc.
ForEach(acc, items) ==
    IF items = <<>> THEN acc
    ELSE ForEach(PushUnique(acc, Head(items)), Tail(items))

\* Variant: queries.shift(), the first element taken.
PopFirst(qs) == 1

\* Variant: a query that is fulfilled already is taken before the others.
PopSettled(qs) ==
    IF \E k \in 1..Len(qs) : qstatus[qs[k]] = "fulfilled"
    THEN CHOOSE k \in 1..Len(qs) :
           /\ qstatus[qs[k]] = "fulfilled"
           /\ \A m \in 1..Len(qs) : qstatus[qs[m]] = "fulfilled" => m >= k
    ELSE Len(qs)

\* queries.pop(): the index of the element taken, the last one.
PopIndex(qs) == Len(qs)

Without(qs, k) == [m \in 1..(Len(qs) - 1) |-> IF m < k THEN qs[m] ELSE qs[m + 1]]

\* processResults up to the point where it returns: it resolves the promise
\* when no query is left, and else pops one and waits for it.
ProcessResults(qs) ==
    IF Len(qs) <= 0
    THEN [mstate |-> "resolved", queries |-> qs, lastQuery |-> 0]
    ELSE [mstate |-> "running", queries |-> Without(qs, PopIndex(qs)),
          lastQuery |-> qs[PopIndex(qs)]]

\* Variant: the error is swallowed and the next query processed.
OnRejectedContinue(qs) == ProcessResults(qs)

\* Variant: the failure of the awaited query is dropped and nothing settles.
OnRejectedDropped(qs) == [mstate |-> "running", queries |-> qs, lastQuery |-> 0]

\* `.catch((error) => reject(error))`: the returned promise is rejected and
\* processResults is not called again.
OnRejected(qs) == [mstate |-> "rejected", queries |-> qs, lastQuery |-> 0]

MergeInit ==
    /\ responses \in UNION { [1..n -> EntryLists] : n \in 0..QueriesPerSearch }
    /\ qstatus = [i \in 1..Len(responses) |-> "unsent"]
    /\ queries = <<>>
    /\ lastQuery = 0
    /\ uniqueIds = <<>>
    /\ uniqueResults = <<>>
    /\ mstate = "idle"
    /\ merror = 0
    /\ settled = <<>>

\* The executor of the returned promise: every query is sent, then
\* processResults is called for the first time.
MergedLaunch ==
    /\ mstate = "idle"
    /\ qstatus' = [i \in 1..Len(responses) |-> "pending"]
    /\ LET all == [i \in 1..Len(responses) |-> i]
           nxt == ProcessResults(all)
       IN  /\ mstate' = nxt.mstate
           /\ queries' = nxt.queries
           /\ lastQuery' = nxt.lastQuery
    /\ UNCHANGED <<responses, uniqueIds, uniqueResults, merror, settled>>
    /\ UNCHANGED searchVars
    /\ UNCHANGED rowVars

\* The gateway call of query i succeeds: its promise is fulfilled.
QueryFulfil(i) ==
    /\ i \in 1..Len(responses)
    /\ qstatus[i] = "pending"
    /\ qstatus' = [qstatus EXCEPT ![i] = "fulfilled"]
    /\ settled' = Append(settled, i)
    /\ UNCHANGED <<responses, queries, lastQuery, uniqueIds, uniqueResults,
                   mstate, merror>>
    /\ UNCHANGED searchVars
    /\ UNCHANGED rowVars

\* The gateway call of query i fails: its promise is rejected.
QueryReject(i) ==
    /\ i \in 1..Len(responses)
    /\ qstatus[i] = "pending"
    /\ qstatus' = [qstatus EXCEPT ![i] = "rejected"]
    /\ settled' = Append(settled, i)
    /\ UNCHANGED <<responses, queries, lastQuery, uniqueIds, uniqueResults,
                   mstate, merror>>
    /\ UNCHANGED searchVars
    /\ UNCHANGED rowVars

\* The then-handler of the awaited query: its entries are merged and
\* processResults is called again.
ThenHandler ==
    /\ mstate = "running"
    /\ lastQuery # 0
    /\ qstatus[lastQuery] = "fulfilled"
    /\ LET acc == ForEach([ids |-> uniqueIds, results |-> uniqueResults],
                          Results(lastQuery))
           nxt == ProcessResults(queries)
       IN  /\ uniqueIds' = acc.ids
           /\ uniqueResults' = acc.results
           /\ mstate' = nxt.mstate
           /\ queries' = nxt.queries
           /\ lastQuery' = nxt.lastQuery
    /\ UNCHANGED <<responses, qstatus, merror, settled>>
    /\ UNCHANGED searchVars
    /\ UNCHANGED rowVars

\* The catch-handler of the awaited query.
CatchHandler ==
    /\ mstate = "running"
    /\ lastQuery # 0
    /\ qstatus[lastQuery] = "rejected"
    /\ LET nxt == OnRejected(queries)
       IN  /\ mstate' = nxt.mstate
           /\ queries' = nxt.queries
           /\ lastQuery' = nxt.lastQuery
    /\ merror' = IF merror = 0 THEN lastQuery ELSE merror
    /\ UNCHANGED <<responses, qstatus, uniqueIds, uniqueResults, settled>>
    /\ UNCHANGED searchVars
    /\ UNCHANGED rowVars

\* ------------------------------------------------- the ECL filter rows
\* Strings are sequences of tokens: " " is one blank, any other token stands
\* for one or more characters that are not blanks, <<>> is the empty string.

\* index.html: the options of select.ecl-filter-operator, `value` and
\* `data-long-value`, in document order.
Options ==
    << [value |-> <<"<">>,   long |-> "descendantOf"],
       [value |-> <<"<<">>,  long |-> "descendantOrSelfOf"],
       [value |-> <<"<!">>,  long |-> "childOf"],
       [value |-> <<"<<!">>, long |-> "childOrSelfOf"],
       [value |-> <<">">>,   long |-> "ancestorOf"],
       [value |-> <<">>">>,  long |-> "ancestorOrSelfOf"],
       [value |-> <<">!">>,  long |-> "parentOf"],
       [value |-> <<">>!">>, long |-> "parentOrSelfOf"],
       [value |-> <<"^">>,   long |-> "memberOf"],
       [value |-> <<>>,      long |-> "Self"],
       [value |-> <<"*">>,   long |-> "ANY"] >>

LongValues == {Options[k].long : k \in 1..Len(Options)}

\* `option[data-long-value=...]`[0].value
OptionValue(long) ==
    Options[CHOOSE k \in 1..Len(Options) :
              /\ Options[k].long = long
              /\ \A m \in 1..(k - 1) : Options[m].long # long].value

\* What a select shows when nothing was chosen in it (no option carries
\* `selected`): its first option. A cloned select is in that state.
DefaultOption == Options[1].long

\* index.html: the one .ecl-filter-wrapper of the page, with the "+" button
\* only.
InitialRow ==
    [opLong |-> DefaultOption, code |-> <<"55342001">>,
     label |-> <<"Neoplastic disease">>, remove |-> FALSE]

NoLog == [short |-> <<>>, long |-> <<>>]

RowsInit ==
    /\ rows = <<InitialRow>>
    /\ eclLog = NoLog

\* updateSearchString: the object `filter` read from one wrapper.
Filter(row) ==
    [op |-> OptionValue(row.opLong), opLong |-> row.opLong,
     code |-> row.code, label |-> row.label]

\* Variant: a row is emitted whether or not it has a code.
PushFilterAlways(acc, filter) ==
    IF filter.opLong = "ANY"
    THEN [short |-> Append(acc.short, filter.op),
          long |-> Append(acc.long, <<filter.opLong>>)]
    ELSE IF filter.label # <<>>
         THEN [short |-> Append(acc.short,
                   filter.op \o <<" ">> \o filter.code \o <<"|">> \o filter.label \o <<"|">>),
               long |-> Append(acc.long,
                   <<filter.opLong>> \o <<" ">> \o filter.code \o <<"|">> \o filter.label \o <<"|">>)]
         ELSE [short |-> Append(acc.short, filter.op \o <<" ">> \o filter.code),
               long |-> Append(acc.long, <<filter.opLong>> \o <<" ">> \o filter.code)]

\* updateSearchString: the body of the .each callback, pushing to shortECL
\* and longECL.
PushFilter(acc, filter) ==
    IF filter.opLong = "ANY"
    THEN [short |-> Append(acc.short, filter.op),
          long |-> Append(acc.long, <<filter.opLong>>)]
    ELSE IF filter.code # <<>>
         THEN IF filter.label # <<>>
              THEN [short |-> Append(acc.short,
                        filter.op \o <<" ">> \o filter.code \o <<"|">> \o filter.label \o <<"|">>),
                    long |-> Append(acc.long,
                        <<filter.opLong>> \o <<" ">> \o filter.code \o <<"|">> \o filter.label \o <<"|">>)]
              ELSE [short |-> Append(acc.short, filter.op \o <<" ">> \o filter.code),
                    long |-> Append(acc.long, <<filter.opLong>> \o <<" ">> \o filter.code)]
         ELSE acc

RECURSIVE EachWrapper(_, _)
\* $(".ecl-filter-wrapper").each over the wrappers rs, from acc.
EachWrapper(acc, rs) ==
    IF rs = <<>> THEN acc
    ELSE EachWrapper(PushFilter(acc, Filter(Head(rs))), Tail(rs))

RECURSIVE Join(_)
\* Array.prototype.join(", ")
Join(parts) ==
    IF parts = <<>> THEN <<>>
    ELSE IF Len(parts) = 1 THEN parts[1]
    ELSE parts[1] \o <<",", " ">> \o Join(Tail(parts))

\* Variant: the long form is displayed.
FieldValueLong(log) == Join(log.long)

\* updateSearchString: `setVal(eclSearchField, shortECL.join(", "))`.
FieldValue(log) == Join(log.short)

\* What updateSearchString writes to the ECL search field for the wrappers rs.
ShortECL(rs) == FieldValue(EachWrapper(NoLog, rs))

\* updateSearchString with the wrappers rs in the document: the expression is
\* rebuilt, logged, written to the ECL search field, and the field's change
\* event runs the handler subscribe bound to it.
UpdateSearchString(rs, dt) ==
    /\ rows' = rs
    /\ eclLog' = EachWrapper(NoLog, rs)
    /\ Fire("ecl", "change", ShortECL(rs), dt)

\* Variant: the new wrapper gets no "-" button.
AddFilterFieldsPlain(rs, operator, code, label) ==
    Append(rs, [opLong |-> IF operator # "" THEN operator ELSE DefaultOption,
                code |-> code, label |-> label, remove |-> FALSE])

\* addFilterFields(operator, code, label) with the wrappers rs in the
\* document (operator "" is undefined): a wrapper of clones is inserted after
\* the last one, with a "-" button and the "+" button.
AddFilterFields(rs, operator, code, label) ==
    Append(rs, [opLong |-> IF operator # "" THEN operator ELSE DefaultOption,
                code |-> code, label |-> label, remove |-> TRUE])

\* Where addFilterFields leaves the page: it scrolls when the new wrapper is
\* below the window.
Scrolled(scroll) == IF scroll THEN "ecl-filter-wrapper" ELSE viewport

\* A click on "+".
AddClick(scroll) ==
    /\ rows # <<>>
    /\ Len(rows) < MaxRows
    /\ rows' = AddFilterFields(rows, "", <<>>, <<>>)
    /\ viewport' = Scrolled(scroll)
    /\ UNCHANGED <<clock, latestSearchToken, fieldVal, offset, reqs, nextId,
                   display, loading, errorShown, lastDelivered, eclLog>>
    /\ UNCHANGED mergeVars

\* removeFilterFields: a click on the "-" button of wrapper k.
RemoveFilterFields(k, dt) ==
    /\ k \in 1..Len(rows)
    /\ rows[k].remove
    /\ UpdateSearchString(Without(rows, k), dt)
    /\ UNCHANGED viewport
    /\ UNCHANGED mergeVars

\* A committed edit (change event, or Enter) of the user in wrapper k: the
\* field edit[1] (opLong, code or label) holds edit[2] and the handler bound
\* to "change keypress" of the wrapper's fields, updateSearchString, runs.
EditRow(k, edit, dt) ==
    /\ k \in 1..Len(rows)
    /\ UpdateSearchString([rows EXCEPT ![k] = [@ EXCEPT ![edit[1]] = edit[2]]], dt)
    /\ UNCHANGED viewport
    /\ UNCHANGED mergeVars

\* Variant: the wrapper kept is the first one.
KeptWrapperFirst(rs) == 1

\* setFilterFields: `$(".ecl-filter-wrapper:not(:last-child)").remove()`
\* keeps the last wrapper of the document.
KeptWrapper(rs) == Len(rs)

RECURSIVE AddAll(_, _)
\* setFilterFields: the loop over filters[1..].
AddAll(rs, filters) ==
    IF filters = <<>> THEN rs
    ELSE AddAll(AddFilterFields(rs, Head(filters).op, Head(filters).code,
                                Head(filters).label),
                Tail(filters))

\* setFilterFields(filters) up to the call of updateSearchString, with the
\* wrappers rs (not empty) in the document.
SetRows(rs, filters) ==
    LET first == [rs[KeptWrapper(rs)] EXCEPT !.opLong = filters[1].op,
                                              !.code = filters[1].code,
                                              !.label = filters[1].label]
    IN  AddAll(<<first>>, Tail(filters))

\* setFilterFields(filters), called by the Parents and Children buttons of
\* a concept in the ECL results. Without a wrapper in the document
\* `select.find(...)[0]` is undefined and the handler throws a TypeError
\* before it has changed anything.
SetFilterFields(filters, dt, scroll) ==
    /\ display["ecl"].kind = "results"
    /\ Len(filters) <= MaxRows
    /\ IF rows = <<>>
       THEN UNCHANGED <<searchVars, rowVars>>
       ELSE /\ UpdateSearchString(SetRows(rows, filters), dt)
            /\ viewport' = IF Len(filters) > 1 THEN Scrolled(scroll) ELSE viewport
    /\ UNCHANGED mergeVars

Init == SearchInit /\ MergeIdle /\ RowsInit

\* The searches: every trigger is a change event on a value that passes the
\* gate (SpecGate has the other events and values; the handler treats an
\* Enter key as it treats a change), and every search finds something.
Next ==
    \/ \E s \in Surfaces, ev \in {"change"}, v \in SearchValues,
          dt \in {0, 1} : Trigger(s, ev, v, dt)
    \/ \E s \in Paginated, p \in 1..CeilDiv(MaxTotal, PageSize) : PageClick(s, p)
    \/ \E i \in 1..MaxRequests, total \in SearchTotals : DeliverOk(i, total)
    \/ \E i \in 1..MaxRequests : DeliverErr(i)

Spec == Init /\ [][Next]_vars

\* The searches when every gateway call completes, with success or failure.
\* Nothing obliges the user to type or to click.
FairCalls ==
    \A i \in 1..MaxRequests :
        WF_vars((\E total \in SearchTotals : DeliverOk(i, total)) \/ DeliverErr(i))

SpecLive == Init /\ [][Next]_vars /\ FairCalls

\* The gate: every event type and value on every surface. The handler reads
\* the event and the clock only, so no response is delivered here, and the
\* clock has advanced whenever it is read.
NextGate ==
    \E s \in Surfaces, ev \in EventTypes, v \in Values, dt \in {1} :
        Trigger(s, ev, v, dt)

SpecGate == Init /\ [][NextGate]_vars

InitMerge == SearchInit /\ MergeInit /\ RowsInit

\* The concept of the ECL results whose Parents / Children button is clicked.
Concept == [code |-> <<"363346000">>, display |-> <<"Malignant neoplastic disease">>]

\* What the user sets in the fields of a wrapper.
Edits ==
    ({"opLong"} \X {"ANY", "Self"})
        \cup ({"code"} \X {<<>>, Concept.code})
        \cup ({"label"} \X {<<>>})

\* The argument of setFilterFields. The Parents and the Children button pass
\* one filter; the function takes any list that is not empty.
ButtonFilters ==
    {[op |-> o, code |-> Concept.code, label |-> Concept.display] :
       o \in {"parentOf", "childOf"}}

FilterLists ==
    {<<f>> : f \in ButtonFilters}
        \cup {fs \in ButtonFilters \X ButtonFilters : fs[1] # fs[2]}

\* The page once the user has pressed Enter in a field of the initial row
\* and the response to that search was drawn: the ECL results, with their
\* Parents and Children buttons, are on the page.
InitRows ==
    /\ clock = 1
    /\ latestSearchToken = 1
    /\ fieldVal = [s \in Fields |->
                     IF s = "ecl" THEN ShortECL(<<InitialRow>>) ELSE InitialValue(s)]
    /\ offset = [s \in Paginated |-> 0]
    /\ reqs = [i \in 1..MaxRequests |->
                 IF i = 1
                 THEN [NewRequest("ecl", 1, "search", ShortECL(<<InitialRow>>), 0)
                         EXCEPT !.status = "applied"]
                 ELSE NoRequest]
    /\ nextId = 2
    /\ display = [s \in Surfaces |-> IF s = "ecl" THEN Drawn(1, MaxTotal) ELSE NoDisplay]
    /\ loading = [s \in Surfaces |-> FALSE]
    /\ errorShown = FALSE
    /\ viewport = "ecl-filters-title"
    /\ lastDelivered = 1
    /\ MergeIdle
    /\ rows = <<InitialRow>>
    /\ eclLog = EachWrapper(NoLog, <<InitialRow>>)

\* The filter rows: their buttons and fields, the Parents and Children
\* buttons of the results, and the ECL search field typed into. The
\* searches they trigger are sent; their responses are not awaited here,
\* and the clock has advanced whenever it is read.
NextRows ==
    \/ \E scroll \in BOOLEAN : AddClick(scroll)
    \/ \E k \in 1..MaxRows, dt \in {1} : RemoveFilterFields(k, dt)
    \/ \E k \in 1..MaxRows, edit \in Edits, dt \in {1} : EditRow(k, edit, dt)
    \/ \E filters \in FilterLists, dt \in {1}, scroll \in BOOLEAN :
          SetFilterFields(filters, dt, scroll)
    \/ \E v \in SearchValues, dt \in {1} : Trigger("ecl", "change", v, dt)

SpecRows == InitRows /\ [][NextRows]_vars

\* The operator, code and label a wrapper may hold.
RowValues ==
    [opLong : LongValues, code : {<<>>, Concept.code},
     label : {<<>>, Concept.display}, remove : {TRUE}]

\* The wrappers of the document: one to MaxRows of them, the first without
\* a "-" button.
RowLists ==
    {[k \in 1..Len(q) |-> [q[k] EXCEPT !.remove = (k > 1)]] :
       q \in SeqsUpTo(RowValues, MaxRows) \ {<<>>}}

InitRender ==
    /\ SearchInit
    /\ MergeIdle
    /\ rows \in RowLists
    /\ eclLog = NoLog

\* Enter pressed in a field of a wrapper: updateSearchString on the
\* wrappers as they are.
Rebuild(dt) ==
    /\ rows # <<>>
    /\ UpdateSearchString(rows, dt)
    /\ UNCHANGED viewport
    /\ UNCHANGED mergeVars

NextRender == \E dt \in {1} : Rebuild(dt)

SpecRender == InitRender /\ [][NextRender]_vars

\* The totals of SpecPaging and SpecPage: two pages and three pages.
PagedTotals == {MaxTotal, MaxPagedTotal}

\* The Concept and ECL surfaces: searches, page clicks and the responses of a
\* server that answers with the offset it was asked for.
NextPaging ==
    \/ \E s \in Paginated, v \in SearchValues, dt \in {0, 1} :
          Trigger(s, "change", v, dt)
    \/ \E s \in Paginated, p \in 1..PageCount(MaxPagedTotal) : PageClick(s, p)
    \/ \E i \in 1..MaxRequests, total \in PagedTotals : DeliverOk(i, total)

SpecPaging == Init /\ [][NextPaging]_vars

\* The offsets a response may carry in SpecPage: multiples of the page size
\* and offsets that are not.
ResponseOffsets == { k * (PageSize \div 2) + d : k \in 0..MaxHalfPages, d \in {0, 1} }

\* The surfaces of SpecPage: one that expands a value set and one that merges
\* resource queries (the ECL surface draws its responses with the same
\* lines of handleSearchField as the Concept surface, the Value Set surface
\* as the Code System surface).
PageSurfaces == {"concept", "codeSystem"}

\* The success handler on any response: searches answered with any offset
\* or with none.
NextPage ==
    \/ \E s \in PageSurfaces, v \in SearchValues, dt \in {0, 1} :
          Trigger(s, "change", v, dt)
    \/ \E i \in 1..MaxRequests, off \in ResponseOffsets \cup {Undefined} :
          DeliverPage(i, off, MaxPagedTotal)

SpecPage == Init /\ [][NextPage]_vars

\* The surface whose controls are clicked in SpecControls.
ControlSurfaces == {"ecl"}

\* The page controls: a search, clicks on the numbered pages, on prev and
\* on next, and the responses of a server that answers with any offset.
NextControls ==
    \/ \E s \in ControlSurfaces, v \in SearchValues, dt \in {0, 1} :
          Trigger(s, "change", v, dt)
    \/ \E s \in ControlSurfaces, p \in 1..PageCount(MaxPagedTotal) : PageClick(s, p)
    \/ \E s \in ControlSurfaces : PrevClick(s)
    \/ \E s \in ControlSurfaces : NextClick(s)
    \/ \E i \in 1..MaxRequests, off \in ResponseOffsets, total \in PagedTotals :
          DeliverPage(i, off, total)

SpecControls == Init /\ [][NextControls]_vars

\* The fields typed into in SpecRetype: the Concept search field and the
\* Value Set field, whose value is the url of the expansions.
RetypeSurfaces == {"concept", "valueSet"}

\* Searches and page clicks while the user changes the text of the fields,
\* to values that pass the gate and to values that do not.
NextRetype ==
    \/ \E s \in RetypeSurfaces, v \in Values, dt \in {1} :
          Trigger(s, "change", v, dt)
    \/ \E s \in Paginated, p \in 1..PageCount(MaxTotal) : PageClick(s, p)
    \/ \E i \in 1..MaxRequests, total \in SearchTotals : DeliverOk(i, total)

SpecRetype == Init /\ [][NextRetype]_vars

\* The parts a Value Set URL is made of in SpecUrl.
UrlParts == {"http://snomed.info/sct", "?", "fhir_vs"}

\* The values of the Value Set field in SpecUrl: with the suffix at the end,
\* in the middle, twice, in part, or not at all.
Urls == SeqsUpTo(UrlParts, MaxUrlLen)

\* The page with some URL in the Value Set field, put there by the user or
\* by the selection of a Code System or a Value Set.
InitUrl ==
    /\ clock = 1
    /\ latestSearchToken = 0
    /\ fieldVal \in {[s \in Fields |-> IF s = "valueSet" THEN u ELSE InitialValue(s)] :
                      u \in Urls}
    /\ offset = [s \in Paginated |-> 0]
    /\ reqs = [i \in 1..MaxRequests |-> NoRequest]
    /\ nextId = 1
    /\ display = [s \in Surfaces |-> NoDisplay]
    /\ loading = [s \in Surfaces |-> FALSE]
    /\ errorShown = FALSE
    /\ viewport = "start"
    /\ lastDelivered = 0
    /\ MergeIdle
    /\ RowsInit

\* ECL searches on that page.
NextUrl ==
    \E v \in SearchValues \cup {ShortECL(<<InitialRow>>)}, dt \in {0, 1} :
        Trigger("ecl", "change", v, dt)

SpecUrl == InitUrl /\ [][NextUrl]_vars

\* Expansions of the Concept and ECL surfaces whose gateway calls fail.
NextError ==
    \/ \E s \in Paginated, v \in SearchValues, dt \in {0, 1} :
          Trigger(s, "change", v, dt)
    \/ \E i \in 1..MaxRequests, jqXHR \in FailedCalls : DeliverFailure(i, jqXHR)

SpecError == Init /\ [][NextError]_vars

\* One call of mergedFHIRResourceQueries, the gateway calls settling in any
\* order.
NextMerge ==
    \/ MergedLaunch
    \/ \E i \in 1..QueriesPerSearch : QueryFulfil(i)
    \/ \E i \in 1..QueriesPerSearch : QueryReject(i)
    \/ ThenHandler
    \/ CatchHandler

SpecMerge == InitMerge /\ [][NextMerge]_vars

\* The FHIR resource a merged surface searches.
Resource(s) == IF s = "codeSystem" THEN "CodeSystem" ELSE "ValueSet"

\* Variant: the name alone is searched.
MergedQueriesByName(s, v) ==
    << [operation |-> Resource(s), param |-> "name:contains", value |-> v] >>

\* The list of pairs [operation, params] the apiQueryBuilder of handleCodeSystem
\* and of handleValueSet passes to mergedFHIRResourceQueries for value v.
MergedQueries(s, v) ==
    << [operation |-> Resource(s), param |-> "name:contains", value |-> v],
       [operation |-> Resource(s), param |-> "description:contains", value |-> v],
       [operation |-> Resource(s), param |-> "url", value |-> v] >>

\* A Code System or Value Set search for a value that passed the gate, at
\* the point where handleSearchField calls apiQueryBuilder: the server will
\* answer each query of the list with some entry list.
InitSearch ==
    \E s \in Surfaces \ Paginated, v \in SearchValues :
        /\ clock = 1
        /\ latestSearchToken = 1
        /\ fieldVal = [t \in Fields |-> IF t = s THEN v ELSE InitialValue(t)]
        /\ offset = [t \in Paginated |-> 0]
        /\ reqs = [i \in 1..MaxRequests |->
                     IF i = 1 THEN NewRequest(s, 1, "search", v, 0) ELSE NoRequest]
        /\ nextId = 2
        /\ display = [t \in Surfaces |-> NoDisplay]
        /\ loading = [t \in Surfaces |-> t = s]
        /\ errorShown = FALSE
        /\ viewport = "start"
        /\ lastDelivered = 0
        /\ RowsInit
        /\ responses \in [1..Len(MergedQueries(s, v)) -> EntryLists]
        /\ qstatus = [i \in 1..Len(responses) |-> "unsent"]
        /\ queries = <<>>
        /\ lastQuery = 0
        /\ uniqueIds = <<>>
        /\ uniqueResults = <<>>
        /\ mstate = "idle"
        /\ merror = 0
        /\ settled = <<>>

\* The call of mergedFHIRResourceQueries such a search makes.
SpecSearch == InitSearch /\ [][NextMerge]_vars

\* What the entry or contains attribute of a response holds in SpecAnswer:
\* nothing (the attribute is absent), an empty list or one entry.
AnswerLists == {Absent, <<>>} \cup {<<id>> : id \in Ids}

\* A search of any surface for a value that passed the gate, at the point
\* where handleSearchField calls apiQueryBuilder: the server will answer each
\* of its queries (one expansion, or the resource queries merged) with or
\* without a list.
InitAnswer ==
    \E s \in Surfaces, v \in SearchValues :
        /\ clock = 1
        /\ latestSearchToken = 1
        /\ fieldVal = [t \in Fields |-> IF t = s THEN v ELSE InitialValue(t)]
        /\ offset = [t \in Paginated |-> 0]
        /\ reqs = [i \in 1..MaxRequests |->
                     IF i = 1 THEN NewRequest(s, 1, "search", v, 0) ELSE NoRequest]
        /\ nextId = 2
        /\ display = [t \in Surfaces |-> NoDisplay]
        /\ loading = [t \in Surfaces |-> t = s]
        /\ errorShown = FALSE
        /\ viewport = "start"
        /\ lastDelivered = 0
        /\ RowsInit
        /\ responses \in [1..GatewayCalls(s) -> AnswerLists]
        /\ qstatus = [i \in 1..Len(responses) |-> "unsent"]
        /\ queries = <<>>
        /\ lastQuery = 0
        /\ uniqueIds = <<>>
        /\ uniqueResults = <<>>
        /\ mstate = "idle"
        /\ merror = 0
        /\ settled = <<>>

\* The apiQueryBuilder of a Code System or Value Set search calls
\* mergedFHIRResourceQueries.
MergedSearch ==
    /\ reqs[1].surface \notin Paginated
    /\ MergedLaunch

\* The promise of mergedFHIRResourceQueries is resolved: the success handler
\* of handleSearchField gets `{ results: uniqueResults }`.
MergedDone ==
    /\ mstate = "resolved"
    /\ DeliverOk(1, Len(uniqueResults))

\* The promise of mergedFHIRResourceQueries is rejected.
MergedFailed ==
    /\ mstate = "rejected"
    /\ DeliverErr(1)

\* The expansion of a Concept or ECL search succeeds: the simplified response
\* holds `response.expansion.contains || []` (the server reports the length
\* of the list as total, or no total without a list).
ExpansionDone ==
    /\ reqs[1].surface \in Paginated
    /\ DeliverOk(1, Len(OrEmpty(responses[1])))

\* The expansion fails.
ExpansionFailed ==
    /\ reqs[1].surface \in Paginated
    /\ DeliverErr(1)

\* One search from its queries to what handleSearchField draws.
NextAnswer ==
    \/ MergedSearch
    \/ \E i \in 1..QueriesPerSearch : QueryFulfil(i)
    \/ \E i \in 1..QueriesPerSearch : QueryReject(i)
    \/ ThenHandler
    \/ CatchHandler
    \/ MergedDone
    \/ MergedFailed
    \/ ExpansionDone
    \/ ExpansionFailed

SpecAnswer == InitAnswer /\ [][NextAnswer]_vars

\* One call of mergedFHIRResourceQueries with N = 0..3 queries, each answer
\* an absent, empty or one-entry list.
InitSettle ==
    /\ SearchInit
    /\ RowsInit
    /\ responses \in UNION { [1..n -> AnswerLists] : n \in 0..QueriesPerSearch }
    /\ qstatus = [i \in 1..Len(responses) |-> "unsent"]
    /\ queries = <<>>
    /\ lastQuery = 0
    /\ uniqueIds = <<>>
    /\ uniqueResults = <<>>
    /\ mstate = "idle"
    /\ merror = 0
    /\ settled = <<>>

\* The executor runs when the promise is constructed and the reactions of a
\* settled promise are run by the event loop; every gateway call that was
\* sent completes, with success or failure.
FairSettle ==
    /\ WF_vars(MergedLaunch)
    /\ WF_vars(ThenHandler)
    /\ WF_vars(CatchHandler)
    /\ \A i \in 1..QueriesPerSearch : WF_vars(QueryFulfil(i) \/ QueryReject(i))

SpecSettle == InitSettle /\ [][NextMerge]_vars /\ FairSettle

\* ===================================================================
\* Properties
\* ===================================================================
Requests == 1..MaxRequests

Issued(i) == reqs[i].status # "unused"

SameSurface(i, j) == Issued(i) /\ Issued(j) /\ reqs[i].surface = reqs[j].surface

\* The results container of surface s shows what request i returned.
Shows(s, i) == display[s].req = i /\ display[s].kind \in {"results", "empty"}

\* ---- C1
\* C1: when a search with token T2 has had its successful response applied
\* on a surface, the later arrival of the successful response of a search of
\* the same surface with a token T1 < T2 changes nothing: the results
\* container (results and page controls), the loading icon, the error box
\* and the stored offsets stay as they were.
C1_StaleResponseIsNoOp ==
    [][\A i \in Requests, total \in Totals :
         ( /\ DeliverOk(i, total)
           /\ \E j \in Requests :
                /\ SameSurface(i, j)
                /\ reqs[j].status = "applied"
                /\ reqs[i].token < reqs[j].token )
         => UNCHANGED <<display, loading, errorShown, offset>>]_vars

\* T2's response was applied, then T1's arrived and was discarded, and the
\* surface still shows T2's results.
C1_Witness ==
    \E i, j \in Requests :
        /\ SameSurface(i, j)
        /\ reqs[i].token < reqs[j].token
        /\ reqs[j].status = "applied"
        /\ reqs[i].status = "discarded"
        /\ lastDelivered = i
        /\ Shows(reqs[j].surface, j)

\* ---- C2
\* C2: of two user inputs on the same surface (search triggers or page
\* requests), the earlier one's successful response never replaces the
\* results displayed for the later one: no surface shows the results of
\* request i, delivered last, while a later request j of that surface has
\* had its response applied before.
C2_EarlierInputNeverOverwrites ==
    \A i, j \in Requests :
        ~ ( /\ i < j
            /\ SameSurface(i, j)
            /\ reqs[i].status = "applied"
            /\ reqs[j].status = "applied"
            /\ lastDelivered = i
            /\ Shows(reqs[i].surface, i) )

\* ---- C3
\* The token of the latest search triggered on surface s (0 if none): what
\* a per-surface "current token" would hold.
SurfaceToken(s) ==
    LET mine == {i \in Requests : Issued(i) /\ reqs[i].surface = s
                                   /\ reqs[i].kind = "search"}
    IN  IF mine = {} THEN 0
        ELSE reqs[CHOOSE i \in mine : \A j \in mine : j <= i].token

\* C3: each surface has its own current token: a successful response whose
\* token is the token of the latest search triggered on its own surface is
\* applied, whatever was triggered on the other surfaces.
C3_PerSurfaceToken ==
    [][\A i \in Requests, total \in Totals :
         ( /\ DeliverOk(i, total)
           /\ reqs[i].token = SurfaceToken(reqs[i].surface) )
         => reqs'[i].status = "applied"]_vars

\* ---- C4
\* C4: every trigger that passes the gate mints a token greater than every
\* token minted before it.
C4_TokensStrictlyIncrease ==
    \A i, j \in Requests :
        ( /\ i < j
          /\ reqs[i].kind = "search"
          /\ reqs[j].kind = "search" )
        => reqs[i].token < reqs[j].token

\* ---- C5
\* C5: the arrival of a successful response whose token is not the latest
\* has no side effect at all: results container, page controls, stored
\* offsets, error box, loading icon and scroll position are unchanged.
C5_StaleResponseNoSideEffect ==
    [][\A i \in Requests, total \in Totals :
         ( /\ DeliverOk(i, total)
           /\ reqs[i].token # latestSearchToken )
         => UNCHANGED <<display, offset, errorShown, loading, viewport>>]_vars

\* ---- C6
\* The length of v without its leading and trailing blanks, counted
\* position by position.
TrimmedLength(v) ==
    LET solid == {k \in 1..Len(v) : v[k] # " "}
    IN  IF solid = {} THEN 0
        ELSE (CHOOSE k \in solid : \A m \in solid : m <= k)
             - (CHOOSE k \in solid : \A m \in solid : m >= k) + 1

\* C6: a change or Enter event on a field whose trimmed value is shorter
\* than the surface's minimum length (1 on the ECL surface, 2 elsewhere)
\* leaves the latest token as it is and sends no query; on a value at least
\* that long it stores a token read from the clock and sends one query for
\* that surface and value.
C6_MinimumLengthGate ==
    [][\A s \in Surfaces, ev \in {"change", "enter"}, v \in Values, dt \in {1} :
         (/\ fieldVal' = IF s \in Fields THEN [fieldVal EXCEPT ![s] = v] ELSE fieldVal
          /\ clock' \in {clock, clock + dt}
          /\ Trigger(s, ev, v, dt)) =>
           IF TrimmedLength(v) < (IF s = "ecl" THEN 1 ELSE 2)
           THEN /\ latestSearchToken' = latestSearchToken
                /\ reqs' = reqs
                /\ nextId' = nextId
           ELSE /\ latestSearchToken' = clock'
                /\ nextId' = nextId + 1
                /\ reqs'[nextId].status = "inflight"
                /\ reqs'[nextId].surface = s
                /\ reqs'[nextId].value = v
                /\ reqs'[nextId].token = clock'
                /\ \A i \in Requests \ {nextId} : reqs'[i] = reqs[i]]_vars

\* A value of trimmed length 1 (two characters untrimmed) sits in the
\* Concept field and no Concept search was sent, while the ECL surface sent
\* a search for a value of trimmed length 1.
C6_Witness ==
    /\ TrimmedLength(fieldVal["concept"]) = 1
    /\ Len(fieldVal["concept"]) = 2
    /\ \A i \in Requests : reqs[i].surface # "concept"
    /\ \E i \in Requests :
         /\ reqs[i].surface = "ecl"
         /\ reqs[i].status = "inflight"
         /\ TrimmedLength(reqs[i].value) = 1
    /\ latestSearchToken # 0

\* ---- C7
\* The (query, position) pairs of the entries returned.
Positions == {<<i, j>> \in (1..Len(responses)) \X (1..MaxEntries + 1) :
                j <= Len(responses[i])}

ReturnedIds == {responses[p[1]][p[2]] : p \in Positions}

\* C7: when the merged query resolves, its result holds every resource id
\* that occurs in some returned list exactly once, and every entry of the
\* result is an entry of one of the lists.
C7_Dedup ==
    mstate = "resolved" =>
        /\ \A id \in ReturnedIds :
             Cardinality({k \in 1..Len(uniqueResults) : uniqueResults[k].id = id}) = 1
        /\ \A k \in 1..Len(uniqueResults) :
             \E p \in Positions : uniqueResults[k] = Entry(p[1], p[2])

\* Resolved with an id twice in one list and again in another list.
C7_Witness ==
    /\ mstate = "resolved"
    /\ \E i, j \in 1..Len(responses) :
         /\ i # j
         /\ Len(responses[i]) = 2
         /\ responses[i][1] = responses[i][2]
         /\ Includes(responses[j], responses[i][1])
    /\ Cardinality(ReturnedIds) = 2
    /\ Len(uniqueResults) = 2

\* ---- C8
RECURSIVE Concat(_, _, _)
\* Results(from) \o ... \o Results(to), stepping by step (1 or -1).
Concat(from, to, step) ==
    IF (step > 0 /\ from > to) \/ (step < 0 /\ from < to) THEN <<>>
    ELSE Results(from) \o Concat(from + step, to, step)

\* The entries of seq whose id occurs at no earlier position, in order.
FirstSeen(seq) ==
    LET Keep(k) == \A m \in 1..(k - 1) : seq[m].id # seq[k].id
        F[k \in 0..Len(seq)] ==
            IF k = 0 THEN <<>>
            ELSE IF Keep(k) THEN Append(F[k - 1], seq[k]) ELSE F[k - 1]
    IN  F[Len(seq)]

\* C8 as claimed: the merged list is the first-seen entries of the lists
\* taken in the order the requests were given.
C8_RequestOrder ==
    mstate = "resolved" =>
        uniqueResults = FirstSeen(Concat(1, Len(responses), 1))

\* C8 as amended: the merged list is the first-seen entries of the lists
\* taken in the reverse of the order the requests were given: the last
\* request's entries, then the new ones of the request before it, and so on.
C8_ReverseRequestOrder ==
    mstate = "resolved" =>
        uniqueResults = FirstSeen(Concat(Len(responses), 1, -1))

\* Resolved, two requests or more, and the merged list begins with an entry
\* of the last request and goes on with an entry of an earlier one.
C8_Witness ==
    /\ mstate = "resolved"
    /\ Len(responses) >= 2
    /\ Len(uniqueResults) >= 2
    /\ uniqueResults[1].q = Len(responses)
    /\ uniqueResults[2].q < Len(responses)

\* ---- C9
RECURSIVE RunToEnd(_, _)
\* What the call resolves with when every response is there from the start:
\* processResults and the then-handler run back to back.
RunToEnd(acc, qs) ==
    LET nxt == ProcessResults(qs)
    IN  IF nxt.mstate = "resolved" THEN acc.results
        ELSE RunToEnd(ForEach(acc, Results(nxt.lastQuery)), nxt.queries)

\* C9: the merged list does not depend on the order in which the gateway
\* calls end: whenever the call resolves, its list is the one it resolves
\* with when all the responses are there before the first is processed.
C9_Deterministic ==
    mstate = "resolved" =>
        uniqueResults = RunToEnd([ids |-> <<>>, results |-> <<>>],
                                 [i \in 1..Len(responses) |-> i])

\* Resolved after the three calls ended in request order, the reverse of
\* the order they are processed in, each contributing an entry.
C9_Witness ==
    /\ mstate = "resolved"
    /\ settled = <<1, 2, 3>>
    /\ Len(uniqueResults) >= 2
    /\ \E i, j \in 1..Len(responses) : i # j /\ responses[i] # responses[j]

\* ---- C10
\* C10: the merged query resolves only when every request succeeded; when a
\* request failed it never resolves, and once every call has ended and the
\* handlers have run it is rejected.
C10_AllOrNothing ==
    /\ mstate = "resolved" =>
         \A i \in 1..Len(responses) : qstatus[i] = "fulfilled"
    /\ ( /\ \E i \in 1..Len(responses) : qstatus[i] = "rejected"
         /\ \A i \in 1..Len(responses) : qstatus[i] \in {"fulfilled", "rejected"}
         /\ mstate # "running" )
       => mstate = "rejected"

\* Rejected although entries of a successful request were merged already.
C10_Witness ==
    /\ mstate = "rejected"
    /\ uniqueResults # <<>>
    /\ \E i \in 1..Len(responses) : qstatus[i] = "fulfilled"
    /\ \A i \in 1..Len(responses) : qstatus[i] \in {"fulfilled", "rejected"}

\* ---- C11
\* The queries whose gateway call failed.
Rejected == {i \in 1..Len(responses) : qstatus[i] = "rejected"}

\* The query whose failure came first in time (0 if none failed).
FirstRejected ==
    IF Rejected = {} THEN 0
    ELSE settled[CHOOSE k \in 1..Len(settled) :
                   /\ settled[k] \in Rejected
                   /\ \A m \in 1..(k - 1) : settled[m] \notin Rejected]

\* C11 as claimed: the merged query fails with the error of the request that
\* failed first in time, and as soon as a request has failed the failure is
\* what the merged query handles next (it waits for no other request).
C11_FirstFailureInTime ==
    /\ mstate = "rejected" => merror = FirstRejected
    /\ (mstate = "running" /\ Rejected # {}) => qstatus[lastQuery] = "rejected"

\* C11 as amended: the merged query fails with the error of the failed
\* request that is last in request order, and only after every request
\* behind it in request order has succeeded; while it runs, every request
\* behind the awaited one has succeeded.
C11_LastFailureInRequestOrder ==
    /\ mstate = "rejected" =>
         /\ merror \in Rejected
         /\ \A i \in (merror + 1)..Len(responses) : qstatus[i] = "fulfilled"
    /\ (mstate = "running" /\ lastQuery # 0) =>
         \A i \in (lastQuery + 1)..Len(responses) : qstatus[i] = "fulfilled"

\* Two requests failed, the merged query failed with the error of the one
\* that failed later in time, and a request is still pending.
C11_Witness ==
    /\ mstate = "rejected"
    /\ Cardinality(Rejected) >= 2
    /\ merror # FirstRejected
    /\ \E i \in 1..Len(responses) : qstatus[i] = "pending"

\* ---- C12
\* C12: after any sequence of "+", "-", Parents / Children and edits the
\* filter-row sequence has at least one row.
C12_AtLeastOneRow == Len(rows) >= 1

\* ---- C13
\* C13: the row at position 0 has no "-" button and every later row has one.
C13_OnlyLaterRowsRemovable ==
    \A k \in 1..Len(rows) : rows[k].remove <=> (k > 1)

\* ---- C14
\* The operator, code and label of the rows rs equal those of filters, in
\* order.
SameContent(rs, filters) ==
    /\ Len(rs) = Len(filters)
    /\ \A k \in 1..Len(filters) :
         /\ rs[k].opLong = filters[k].op
         /\ rs[k].code = filters[k].code
         /\ rs[k].label = filters[k].label

\* C14: setFilterFields(filters) keeps the row at position 0 (the one
\* without a "-" button when there is one) and no other, sets it to
\* filters[0] and appends a row per further filter, so that the rows hold
\* the operators, codes and labels of filters, in order.
C14_ReplaceAllKeepsFirstRow ==
    [][\A filters \in FilterLists, dt \in {0, 1}, scroll \in BOOLEAN :
         SetFilterFields(filters, dt, scroll) =>
           /\ SameContent(rows', filters)
           /\ rows'[1].remove = rows[1].remove
           /\ \A k \in 2..Len(rows') : rows'[k].remove]_vars

\* ---- C15
\* The operator token of a row in the short and in the long form.
RefOp(row, form) == IF form = "short" THEN OptionValue(row.opLong) ELSE <<row.opLong>>

RefEmits(row) == row.opLong = "ANY" \/ row.code # <<>>

RefItem(row, form) ==
    IF row.opLong = "ANY" THEN RefOp(row, form)
    ELSE IF row.label # <<>>
         THEN RefOp(row, form) \o <<" ">> \o row.code \o <<"|">> \o row.label \o <<"|">>
         ELSE RefOp(row, form) \o <<" ">> \o row.code

RECURSIVE RefRender(_, _)
\* The reference rendering: the items of the rows that emit one, in order,
\* with ", " between two items.
RefRender(rs, form) ==
    IF rs = <<>> THEN <<>>
    ELSE LET front == SubSeq(rs, 1, Len(rs) - 1)
             last == rs[Len(rs)]
         IN  IF ~RefEmits(last) THEN RefRender(front, form)
             ELSE IF \E k \in 1..Len(front) : RefEmits(front[k])
                  THEN RefRender(front, form) \o <<",", " ">> \o RefItem(last, form)
                  ELSE RefItem(last, form)

\* C15: updateSearchString writes the reference short form of the rows to
\* the ECL search field, and the long-form items it builds, joined, are the
\* reference long form.
C15_RenderMatchesReference ==
    [][/\ fieldVal'["ecl"] = RefRender(rows', "short")
       /\ Join(eclLog'.short) = RefRender(rows', "short")
       /\ Join(eclLog'.long) = RefRender(rows', "long")]_vars

\* Rendered: two rows, the second one without a code and not ANY, and the
\* list built has the first row's item only.
C15_Witness ==
    /\ Len(rows) = 2
    /\ rows[2].code = <<>>
    /\ rows[2].opLong # "ANY"
    /\ rows[2].label # <<>>
    /\ rows[1].code # <<>>
    /\ Len(eclLog.short) = 1
    /\ fieldVal["ecl"] = eclLog.short[1]
    /\ \E i \in Requests : reqs[i].surface = "ecl" /\ reqs[i].value = fieldVal["ecl"]

\* ---- C16
\* C16 as claimed: whenever the row sequence changes, the ECL search field
\* holds the short form of the new rows afterwards.
C16_RecomputedOnEveryChange ==
    [][rows' # rows => fieldVal'["ecl"] = RefRender(rows', "short")]_vars

\* C16 as amended: after a "-", Parents / Children or committed edit that
\* changes the rows, the ECL search field holds the short form of the new
\* rows; a "+" appends a row that renders nothing and leaves the field as it
\* is.
C16_RecomputedExceptOnAppend ==
    [][rows' # rows =>
         IF \E scroll \in BOOLEAN : AddClick(scroll)
         THEN /\ fieldVal'["ecl"] = fieldVal["ecl"]
              /\ RefRender(rows', "short") = RefRender(rows, "short")
         ELSE fieldVal'["ecl"] = RefRender(rows', "short")]_vars

\* The user typed an expression in the ECL search field and then clicked
\* "+": the field holds what was typed, not the short form of the rows;
\* before that a row was edited and the field rewritten.
C16_Witness ==
    /\ Len(rows) = 2
    /\ rows[2] = AddFilterFields(<<>>, "", <<>>, <<>>)[1]
    /\ fieldVal["ecl"] \in SearchValues
    /\ fieldVal["ecl"] # RefRender(rows, "short")
    /\ eclLog.short # <<>>

\* ---- C17
\* The step sends an ECL search.
SendsEcl == nextId' = nextId + 1 /\ reqs'[nextId].surface = "ecl"

\* C17 as claimed: the expression of every ECL search sent is the short
\* form of the filter rows at that moment.
C17_SentExpressionIsRendering ==
    [][SendsEcl => reqs'[nextId].value = RefRender(rows', "short")]_vars

\* C17 as amended: the expression of every ECL search sent is the value the
\* ECL search field holds at that moment: the short form of the rows when a
\* row operation triggered the search, and what the user typed in the field
\* otherwise.
C17_SentExpressionIsFieldValue ==
    [][SendsEcl =>
         /\ reqs'[nextId].value = fieldVal'["ecl"]
         /\ \/ reqs'[nextId].value = RefRender(rows', "short")
            \/ /\ reqs'[nextId].value \in SearchValues
               /\ UNCHANGED rowVars]_vars

\* A search was sent for an expression typed in the field, which is not
\* the short form of the rows.
C17_Witness ==
    \E i \in Requests :
        /\ reqs[i].surface = "ecl"
        /\ reqs[i].status = "inflight"
        /\ reqs[i].value \in SearchValues
        /\ reqs[i].value = fieldVal["ecl"]
        /\ reqs[i].value # RefRender(rows, "short")

\* ------------------------------------------------------------------ C18
\* k is ceil(total / PageSize): the least number of pages that hold total.
IsCeil(k, total) == k * PageSize >= total /\ (k - 1) * PageSize < total

\* C18: a click on page p sets the offset of the surface to pageSize * (p - 1)
\* and the request it issues carries that offset; the pagination controls
\* drawn for a response offer ceil(total / pageSize) pages. With pageSize
\* 100 and total 250: page 1 is offset 0, page 3 is offset 200, 3 pages.
C18_PaginationArithmetic ==
    [][ /\ \A s \in Paginated, p \in 1..PageCount(MaxPagedTotal) :
             PageClick(s, p) =>
                /\ offset'[s] = PageSize * (p - 1)
                /\ reqs'[nextId].kind = "page"
                /\ reqs'[nextId].surface = s
                /\ reqs'[nextId].offset = PageSize * (p - 1)
                /\ (PageSize = 100 /\ p = 1) => offset'[s] = 0
                /\ (PageSize = 100 /\ p = 3) => offset'[s] = 200
        /\ \A s \in Paginated :
             display'[s].kind = "results" =>
                /\ IsCeil(display'[s].pages, display'[s].total)
                /\ (PageSize = 100 /\ display'[s].total = 250) => display'[s].pages = 3
      ]_vars

\* Page 3 of a search with 250 results was requested and drawn.
C18_Witness ==
    \E s \in Paginated, i \in 1..MaxRequests :
        /\ reqs[i].kind = "page" /\ reqs[i].surface = s /\ reqs[i].offset = 200
        /\ display[s].kind = "results" /\ display[s].req = i
        /\ display[s].total = 250 /\ display[s].pages = 3

\* ------------------------------------------------------------------ C19
\* C19: the active page of the controls drawn for a response is
\* floor(offset / pageSize) + 1, whatever offset the response carries.
C19_CurrentPageIsFloor ==
    \A s \in Paginated :
        display[s].kind = "results" =>
            display[s].current = ((display[s].first - 1) \div PageSize) + 1

\* ------------------------------------------------------------------ C20
\* C20: a search triggered on the Concept or ECL field sets the offset of the
\* surface to 0, whatever page was requested before, and the request it
\* issues carries offset 0.
C20_NewSearchResetsOffset ==
    [][ \A s \in Paginated, v \in SearchValues, dt \in {0, 1} :
            (Trigger(s, "change", v, dt) /\ nextId' = nextId + 1) =>
                /\ offset'[s] = 0
                /\ reqs'[nextId].kind = "search"
                /\ reqs'[nextId].surface = s
                /\ reqs'[nextId].offset = 0
      ]_vars

\* A search issued after a later page of the same surface was requested.
C20_Witness ==
    \E s \in Paginated, i, j \in 1..MaxRequests :
        /\ i < j
        /\ reqs[i].kind = "page" /\ reqs[i].surface = s /\ reqs[i].offset > 0
        /\ reqs[j].kind = "search" /\ reqs[j].surface = s /\ reqs[j].offset = 0
        /\ offset[s] = 0

\* ------------------------------------------------------------------ C21
\* Request i was answered in this step (fulfilled or rejected).
Answered(i) == reqs[i].status = "inflight" /\ reqs'[i].status # "inflight"

\* C21: the latest token changes only in a step of the field subscription
\* that issues a search, whose token is the clock reading stored; a page
\* request carries the token of the search that drew the controls clicked
\* and leaves the latest token alone; no answer changes the latest token.
C21_TokensOnlyFromSubscription ==
    [][ /\ latestSearchToken' # latestSearchToken =>
             /\ nextId' = nextId + 1
             /\ reqs'[nextId].kind = "search"
             /\ reqs'[nextId].token = latestSearchToken'
             /\ latestSearchToken' = clock'
        /\ (nextId' = nextId + 1 /\ reqs'[nextId].kind = "search") =>
             /\ reqs'[nextId].token = clock'
             /\ latestSearchToken' = clock'
        /\ (nextId' = nextId + 1 /\ reqs'[nextId].kind = "page") =>
             /\ latestSearchToken' = latestSearchToken
             /\ display[reqs'[nextId].surface].kind = "results"
             /\ reqs'[nextId].token = display[reqs'[nextId].surface].tok
        /\ \A i \in 1..MaxRequests : Answered(i) => latestSearchToken' = latestSearchToken
      ]_vars

\* A page request answered while a later search holds the latest token.
C21_Witness ==
    \E i \in 1..MaxRequests :
        /\ reqs[i].kind = "page"
        /\ reqs[i].status # "inflight"
        /\ reqs[i].token < latestSearchToken

\* ------------------------------------------------------------------ C22
\* The query of request i failed in this step.
Failed(i) == reqs[i].status = "inflight" /\ reqs'[i].status = "failed"

\* C22: when a query fails, the error box is shown and the loading icon of
\* its surface is stopped, whether its token is the latest or not.
C22_FailureAlwaysReported ==
    [][ \A i \in 1..MaxRequests :
            Failed(i) => errorShown' /\ ~loading'[reqs[i].surface]
      ]_vars

\* The failure of a search that is not the latest was reported.
C22_Witness ==
    \E i \in 1..MaxRequests :
        /\ reqs[i].status = "failed"
        /\ reqs[i].token < latestSearchToken
        /\ lastDelivered = i
        /\ errorShown
        /\ ~loading[reqs[i].surface]

\* ------------------------------------------------------------------ C23
\* C23: when a search fails, the results container of its surface keeps what
\* it showed; only the error box changes.
C23_FailureKeepsResults ==
    [][ \A i \in 1..MaxRequests :
            Failed(i) => display'[reqs[i].surface] = display[reqs[i].surface]
      ]_vars

\* ------------------------------------------------------------------ C24
\* C24: a search or page request makes its gateway calls when it is issued,
\* 3 for a Code System or Value Set search and 1 for a Concept or ECL
\* expansion; no other step makes a gateway call, in particular not the
\* step in which a request is answered with a failure.
C24_NoAutomaticRetry ==
    [][ /\ \A i \in 1..MaxRequests :
             reqs'[i].calls # reqs[i].calls =>
                /\ i = nextId /\ nextId' = nextId + 1
                /\ reqs[i].calls = 0
                /\ reqs'[i].kind \in {"search", "page"}
                /\ reqs'[i].calls =
                      IF reqs'[i].surface \in {"codeSystem", "valueSet"} THEN 3 ELSE 1
        /\ nextId' # nextId => reqs'[nextId].calls # 0
        /\ \A i \in 1..MaxRequests :
             Answered(i) => \A j \in 1..MaxRequests : reqs'[j].calls = reqs[j].calls
      ]_vars

\* A Code System search and an expansion have both failed.
C24_Witness ==
    \E i, j \in 1..MaxRequests :
        /\ reqs[i].status = "failed" /\ reqs[i].surface = "codeSystem"
        /\ reqs[i].calls = 3
        /\ reqs[j].status = "failed" /\ reqs[j].surface \in Paginated
        /\ reqs[j].calls = 1
        /\ \A k \in 1..MaxRequests : k >= nextId => reqs[k].calls = 0

\* ------------------------------------------------------------------ C25
\* The queries of the search of request 1 that were sent.
Sent == {i \in 1..Len(qstatus) : qstatus[i] # "unsent"}

\* Two of the lists returned hold one entry with id "sct", the third one
\* entry with id "icd10".
TwoSctOneIcd10 ==
    /\ Len(responses) = 3
    /\ \A i \in 1..3 : Len(responses[i]) = 1
    /\ Cardinality({i \in 1..3 : responses[i][1] = "sct"}) = 2
    /\ Cardinality({i \in 1..3 : responses[i][1] = "icd10"}) = 1

\* C25: a Code System or Value Set search for v has three queries,
\* name:contains = v, description:contains = v and url = v on its resource;
\* all three are sent before any response is processed; when the search
\* resolves, its result holds each id returned once and nothing else, two
\* entries when two lists hold "sct" and one holds "icd10".
C25_ThreeQueriesMerged ==
    LET s == reqs[1].surface
        v == reqs[1].value
        qa == MergedQueries(s, v)
    IN  /\ Len(qa) = 3
        /\ Len(qstatus) = Len(qa)
        /\ [i \in 1..Len(qa) |-> qa[i].param] =
              <<"name:contains", "description:contains", "url">>
        /\ \A i \in 1..Len(qa) :
              /\ qa[i].value = v
              /\ qa[i].operation = (IF s = "codeSystem" THEN "CodeSystem" ELSE "ValueSet")
        /\ Sent \in {{}, 1..Len(qa)}
        /\ (mstate # "idle" \/ uniqueIds # <<>> \/ settled # <<>>) => Sent = 1..Len(qa)
        /\ mstate = "resolved" =>
              /\ {uniqueResults[k].id : k \in 1..Len(uniqueResults)} = ReturnedIds
              /\ Len(uniqueResults) = Cardinality(ReturnedIds)
              /\ TwoSctOneIcd10 => Len(uniqueResults) = 2

\* Resolved: two queries returned "sct", one "icd10", two entries result.
C25_Witness ==
    /\ mstate = "resolved"
    /\ TwoSctOneIcd10
    /\ Len(uniqueResults) = 2
    /\ reqs[1].surface = "codeSystem"

\* ------------------------------------------------------------------ C26
\* C26: when a response that is not stale and holds entries carries no
\* offset, the entries are drawn without page information and without
\* pagination controls; the response to a Code System or Value Set search
\* never carries one.
C26_NoOffsetNoPagination ==
    [][ \A i \in 1..MaxRequests :
            (/\ reqs[i].status = "inflight"
             /\ reqs'[i].status = "applied"
             /\ \/ reqs[i].surface \in {"codeSystem", "valueSet"}
                \/ DeliverPage(i, Undefined, MaxPagedTotal)) =>
                /\ display'[reqs[i].surface].kind = "results"
                /\ display'[reqs[i].surface].req = i
                /\ display'[reqs[i].surface].pages = 0
                /\ display'[reqs[i].surface].current = 0
                /\ display'[reqs[i].surface].first = 0
      ]_vars

\* An expansion without offset and a Code System search were both drawn.
C26_Witness ==
    /\ display["concept"].kind = "results" /\ display["concept"].pages = 0
    /\ display["codeSystem"].kind = "results" /\ display["codeSystem"].pages = 0

\* ------------------------------------------------------------------ C27
\* url is some string followed by "?fhir_vs".
HasSuffix(url) == \E k \in 0..Len(url) : url = SubSeq(url, 1, k) \o <<"?", "fhir_vs">>

\* C27: the url parameter of an ECL search is the Value Set URL, followed by
\* "?fhir_vs" if and only if the URL does not end with it, followed by
\* "=ecl/" and the expression searched; a URL that ends with "?fhir_vs"
\* gets no second suffix.
C27_EclUrlComposition ==
    \A i \in 1..MaxRequests :
        reqs[i].surface = "ecl" =>
            LET url == fieldVal["valueSet"]
                tail == <<"=ecl/">> \o reqs[i].value
            IN  /\ HasSuffix(url) => reqs[i].url = url \o tail
                /\ ~HasSuffix(url) => reqs[i].url = url \o <<"?", "fhir_vs">> \o tail

\* ECL searches sent for a URL with the suffix and for one without it.
C27_Witness ==
    \E i \in 1..MaxRequests :
        /\ reqs[i].surface = "ecl"
        /\ reqs[i].value = ShortECL(<<InitialRow>>)
        /\ fieldVal["valueSet"] = <<"http://snomed.info/sct", "?", "fhir_vs">>
        /\ reqs[i].url = fieldVal["valueSet"] \o <<"=ecl/">> \o reqs[i].value

\* ------------------------------------------------------------------ C28
\* No response of the search holds an entry: each list is empty or absent.
NothingReturned == \A i \in 1..Len(responses) : responses[i] \in {<<>>, <<"undefined">>}

\* C28: a response without entry list or contains list counts as a response
\* with no results. The search ends in failure only when a gateway call
\* failed; when it succeeds the error box stays hidden, the loading icon is
\* stopped, and "No results" is drawn exactly when no response holds an
\* entry.
C28_AbsentListIsEmpty ==
    LET s == reqs[1].surface
    IN  /\ reqs[1].status = "applied" =>
              /\ ~errorShown
              /\ ~loading[s]
              /\ display[s].kind \in {"empty", "results"}
              /\ display[s].kind = "empty" <=> NothingReturned
        /\ (errorShown \/ reqs[1].status = "failed") =>
              /\ reqs[1].status = "failed"
              /\ s \notin Paginated => \E i \in 1..Len(qstatus) : qstatus[i] = "rejected"

\* Searches answered without a list were drawn as "No results".
C28_Witness ==
    /\ reqs[1].status = "applied"
    /\ \A i \in 1..Len(responses) : responses[i] = <<"undefined">>
    /\ display[reqs[1].surface].kind = "empty"
    /\ ~errorShown

\* ------------------------------------------------------------------ C29
\* The failed calls whose response has a body that is not valid JSON.
ParseFailures == {x \in FailedCalls : x.responseText # "" /\ ~x.responseJSON}

\* C29: the value a failed gateway call rejects with tells the kind of
\* failure: it carries the body when the server sent a JSON body, the status
\* alone when there is no body, and for a body that is not valid JSON a
\* value that no failure of the two other kinds yields.
C29_ErrorKindsDistinct ==
    [][ \A i \in 1..MaxRequests, x \in FailedCalls :
            DeliverFailure(i, x) =>
                /\ x.responseJSON => reqs'[i].error.message = x.responseText
                /\ x.responseText = "" => reqs'[i].error.message = ToString(x.status)
                /\ x \in ParseFailures =>
                      \A y \in FailedCalls \ ParseFailures :
                          reqs'[i].error # GatewayError(y)
      ]_vars

\* ------------------------------------------------------------------ C30
\* The filter rows a click on the Parents or Children button leaves: those
\* setFilterFields builds, or the rows as they were when it throws.
RowsAfterClick(f) == IF rows = <<>> THEN rows ELSE SetRows(rows, <<f>>)

\* C30: wherever ECL results are on the page, a click on Children (or
\* Parents) of a concept leaves exactly one filter row, with operator
\* childOf (or parentOf), the concept's code and its display as label, and
\* the expression rendered from it passes the gate of the ECL field, so that
\* a search for it starts.
C30_ButtonReplacesRowsAndSearches ==
    display["ecl"].kind = "results" =>
        \A f \in ButtonFilters :
            LET rs == RowsAfterClick(f)
            IN  /\ Len(rs) = 1
                /\ SameContent(rs, <<f>>)
                /\ ShortECL(rs) = RefRender(rs, "short")
                /\ PassesGate("ecl", ShortECL(rs))

\* ------------------------------------------------------------------ C31
\* The queries whose gateway call has completed.
Completed == {i \in 1..Len(responses) : qstatus[i] \in {"fulfilled", "rejected"}}

\* C31: when every query that was sent completes, the merged query
\* eventually resolves or rejects; once it has done one of the two it stays
\* so; and it is resolved only when all N queries have completed.
C31_SettlesExactlyOnce ==
    /\ <>(mstate \in {"resolved", "rejected"})
    /\ [][(mstate = "resolved" \/ mstate = "rejected") => mstate' = mstate]_vars
    /\ [](mstate = "resolved" => Completed = 1..Len(responses))

\* The merged query of three queries was rejected by the failure of the
\* first of them, after the two behind it had succeeded and merged entries.
C31_Witness ==
    /\ Len(responses) = QueriesPerSearch
    /\ mstate = "rejected"
    /\ merror = 1
    /\ Completed = 1..QueriesPerSearch
    /\ uniqueResults # <<>>

\* ------------------------------------------------------------------ C32
\* No request of surface s is in flight.
Quiet(s) == \A i \in Requests : ~(reqs[i].status = "inflight" /\ reqs[i].surface = s)

\* C32: when every gateway call completes, a loading indicator that is
\* active while no request of its surface is in flight becomes inactive (or
\* a new request of the surface starts): no indicator spins forever over a
\* surface that waits for nothing.
C32_IndicatorEventuallyInactive ==
    \A s \in Surfaces :
        (Quiet(s) /\ loading[s]) ~> (~loading[s] \/ ~Quiet(s))

\* ------------------------------------------------------------------ C33
\* Surface s displays the results of the request issued last on it.
ShowsLatest(s) ==
    /\ display[s].kind = "results"
    /\ \A k \in Requests : (Issued(k) /\ reqs[k].surface = s) => k <= display[s].req

\* Request i belongs to a search of surface s that is older than the
\* displayed one and has another token.
Superseded(s, i) ==
    /\ reqs[i].surface = s
    /\ i < display[s].req
    /\ reqs[i].token < display[s].tok

\* C33: while a surface displays the results of its latest search, the
\* arrival of the response, successful or failed, to a superseded search of
\* that surface leaves what the surface displays as it is.
C33_LateResponseKeepsResults ==
    [][\A s \in Surfaces, i \in Requests :
         ( /\ ShowsLatest(s)
           /\ Superseded(s, i)
           /\ reqs[i].status = "inflight"
           /\ reqs'[i].status # "inflight" )
         => display'[s] = display[s]]_vars

\* ------------------------------------------------------------------ C34
\* C34: whenever no request of a paginated surface is in flight and the
\* surface displays a page of results with its controls, the offset stored
\* for the surface is the offset of the first result of that page.
C34_StoredOffsetIsDisplayedPage ==
    \A s \in Paginated :
        ( /\ Quiet(s)
          /\ display[s].kind = "results"
          /\ display[s].pages > 0 )
        => offset[s] = display[s].first - 1

\* ------------------------------------------------------------------ C35
\* The page the request issued in this step asks for.
AskedPage == (reqs'[nextId].offset \div PageSize) + 1

\* C35: every page request issued from the controls of a surface asks for a
\* page between 1 and ceil(total / pageSize) of the displayed controls, at
\* an offset that is a multiple of pageSize and smaller than total; a click
\* on prev happens only off page 1 and asks for current - 1, a click on next
\* only off the last page and asks for current + 1.
C35_PageRequestsInRange ==
    [][\A s \in Paginated :
         /\ ( /\ nextId' = nextId + 1
              /\ reqs'[nextId].kind = "page"
              /\ reqs'[nextId].surface = s ) =>
                /\ reqs'[nextId].offset % PageSize = 0
                /\ reqs'[nextId].offset < display[s].total
                /\ AskedPage >= 1
                /\ IsCeil(display[s].pages, display[s].total)
                /\ AskedPage <= display[s].pages
         /\ PrevClick(s) =>
                /\ display[s].current > 1
                /\ AskedPage = display[s].current - 1
         /\ NextClick(s) =>
                /\ display[s].current < display[s].pages
                /\ AskedPage = display[s].current + 1
      ]_vars

\* Page 3 of 3 is displayed and page 2 was asked for last, which a click
\* on prev does; or page 1 of 3 is displayed and page 2 was asked for.
C35_Witness ==
    \E s \in Paginated, i \in Requests :
        /\ display[s].kind = "results"
        /\ display[s].current = 3 /\ display[s].pages = 3
        /\ i > display[s].req
        /\ reqs[i].kind = "page" /\ reqs[i].surface = s
        /\ reqs[i].offset = PageSize

\* ------------------------------------------------------------------ C36
\* C36: a page request issued from the controls of a surface carries the
\* search value and the Value Set url of the request that drew the page
\* on display.
C36_PageRequestRepeatsQuery ==
    [][\A s \in Paginated :
         ( /\ nextId' = nextId + 1
           /\ reqs'[nextId].kind = "page"
           /\ reqs'[nextId].surface = s ) =>
             /\ reqs'[nextId].value = reqs[display[s].req].value
             /\ reqs'[nextId].url = reqs[display[s].req].url
      ]_vars
====
